---- MODULE Spec2Model ----
(***************************************************************************)
(* State-machine model of src/src/transaction.rs: the PC/SC transaction    *)
(* layer of yubikey-piv.rs.  One session talks to one card.  Every action  *)
(* is one frame transmission of a handler together with the local code     *)
(* that runs up to the next transmission or up to the handler's return.    *)
(*                                                                         *)
(* Bytes are integers 0..255, buffers are sequences of bytes.  The card is *)
(* the environment.  In mode "free" it may answer every frame with any     *)
(* status word of its set and a payload within a budget of bytes, or the   *)
(* transport may fail; in mode "applets" it does the same and its selected *)
(* application is kept track of; in mode "store" it keeps the object a PUT *)
(* DATA chain delivered and returns it on GET DATA; in the modes "sign"    *)
(* and "object" it answers GENERAL AUTHENTICATE and GET DATA with replies  *)
(* in good order and out of order; in mode "drain" it answers anything     *)
(* but never a "get more" frame with class 0x61 and no payload.            *)
(***************************************************************************)
EXTENDS Integers, Sequences, FiniteSets, TLC

VARIABLES
    pc,         \* position of the running handler
    op,         \* the handler that was called
    call,       \* the arguments of the call
    templ,      \* transfer_data: templ
    in_data,    \* transfer_data: in_data
    max_out,    \* transfer_data: max_out
    in_offset,  \* transfer_data: in_offset
    out_data,   \* transfer_data: out_data
    sw,         \* transfer_data: sw
    frames,     \* the frames transmitted during the call, in send order
    rx,         \* the responses received during the call, in arrival order
    xres,       \* what transfer_data returned to the handler
    result,     \* what the handler returned to its caller
    dev,        \* the card
    saved,      \* history: the content the storing card was last given by
                \* a save_object that succeeded
    released,   \* what the memory of the local buffers holds that the
                \* handlers of secrets released during the call
    live,       \* the sessions whose Transaction exists
    holder,     \* the session the card has granted its transaction to, or 0
    owner       \* the session whose Transaction the running handler was
                \* called on, or 0

vars == <<pc, op, call, templ, in_data, max_out, in_offset, out_data, sw,
          frames, rx, xres, result, dev, saved, released, live, holder,
          owner>>

(***************************************************************************)
(* Bounds of the model.                                                    *)
(***************************************************************************)
\* in_data of a direct transfer_data call spans at most MaxChunks full frames
\* plus one byte
MaxChunks == 2
\* "get more" frames the card is followed through in one call
MaxGetMore == 2
\* payload bytes the free card sends in all during one call
MaxRespBytes == 4
\* payload bytes the draining card sends in one response
MaxDrainBytes == 2
\* largest output ceiling of the calls made to the draining card
MaxSmallOut == 2
\* longest input handed to authenticated_command
MaxInLen == 257

(***************************************************************************)
(* Program constants.                                                      *)
(***************************************************************************)
\* 0xff: payload bytes per frame
FrameMax == 255
\* 0x10: class byte of a frame that is not the last of its chain
ChainCla == 16
\* 0x61: status class "more data available"
MoreCla == 97
\* StatusWords::Success
SwSuccess == 36864

Hi(w) == w \div 256

(***************************************************************************)
(* Status words the card answers with (apdu.rs is not part of the source   *)
(* under study; the codes are those of the wire format).                   *)
(***************************************************************************)
SwMore         == 24833   \* 0x6101: one more byte is available
SwAuthBlocked  == 27011   \* 0x6983
SwSecurity     == 27010   \* 0x6982
SwNotFound     == 27272   \* 0x6A88
SwVerifyFail0  == 25536   \* 0x63C0: verify failed, 0 tries left
SwIncorrect    == 27264   \* 0x6A80: a status no handler knows

StatusSet ==
    { SwSuccess, SwMore, SwAuthBlocked, SwSecurity, SwNotFound,
      SwVerifyFail0, SwVerifyFail0 + 5, SwVerifyFail0 + 15, SwIncorrect }

\* the status words the free card answers a handler's frames with
StatusesFor(o) ==
    IF o \in {"transfer_data", "authenticated_command", "save_object",
              "fetch_object"}
    THEN { SwSuccess, SwMore, SwSecurity, SwNotFound, SwIncorrect }
    ELSE StatusSet

\* the payload of the k-th response of a call, n bytes long: its bytes tell
\* the responses of one call apart
Payload(k, n) == [i \in 1..n |-> (16 * k + i) % 256]

\* a transport failure (pcsc error) instead of a response
TransportError == [sw |-> -1, data |-> <<>>]

\* what the free card may answer the k-th frame of a call of handler o with,
\* having `left` payload bytes to spend
FreeResponses(o, k, left) ==
    { [sw |-> s, data |-> Payload(k, n)] : s \in StatusesFor(o), n \in 0..left }
    \cup { TransportError }

(***************************************************************************)
(* Values.                                                                 *)
(***************************************************************************)
NoCall == [pin |-> <<>>, new_pin |-> <<>>, action |-> "none", alg |-> "none",
           decipher |-> FALSE, id |-> 0, major |-> 0, data |-> <<>>,
           require_touch |-> FALSE]

NoResult == [kind |-> "none", err |-> "none", tries |-> 0, value |-> <<>>]
Ok(v)    == [kind |-> "Ok", err |-> "none", tries |-> 0, value |-> v]
Err(e)   == [kind |-> "Err", err |-> e, tries |-> 0, value |-> <<>>]
ErrTries(e, t) == [kind |-> "Err", err |-> e, tries |-> t, value |-> <<>>]
Panic    == [kind |-> "Panic", err |-> "none", tries |-> 0, value |-> <<>>]

NoXres == [kind |-> "none", err |-> "none", sw |-> 0, data |-> <<>>]
XOk(s, d) == [kind |-> "Ok", err |-> "none", sw |-> s, data |-> d]
XErr(e) == [kind |-> "Err", err |-> e, sw |-> 0, data |-> <<>>]
XPanic == [kind |-> "Panic", err |-> "none", sw |-> 0, data |-> <<>>]

\* an APDU; the instruction is kept by its name in apdu::Ins
Frame(cla, ins, p1, p2, data) ==
    [cla |-> cla, ins |-> ins, p1 |-> p1, p2 |-> p2, data |-> data]

Templ(cla, ins, p1, p2) == [cla |-> cla, ins |-> ins, p1 |-> p1, p2 |-> p2]
NoTempl == Templ(0, "none", 0, 0)

\* the bytes of a direct call's in_data
InBytes(len, seed) == [i \in 1..len |-> (seed + 3 * i) % 256]

(***************************************************************************)
(* The card.                                                               *)
(***************************************************************************)
FreeCard == [mode |-> "free", chain |-> <<>>, store |-> <<>>, pending |-> <<>>]

\* a card that stores one object; nothing is stored yet
StoreCard == [mode |-> "store", chain |-> <<>>, store |-> <<>>, pending |-> <<>>]

\* the receive buffer of transmit(self, 261)
RecvLen == 261

\* the object identifier of the model: 0x5fc105
ObjectId == 6275333

\* set_object (yubikey.rs): the addressing field of GET DATA and PUT DATA
SetObject(id) ==
    <<92, 3, (id \div 65536) % 256, (id \div 256) % 256, id % 256>>

\* the storing card sends the front of `bytes` and keeps the rest for the
\* "get more" frames
SendFront(d, bytes) ==
    LET n == IF Len(bytes) > RecvLen - 2 THEN RecvLen - 2 ELSE Len(bytes)
        left == Len(bytes) - n
    IN  [resp |-> [sw |-> IF left = 0 THEN SwSuccess
                          ELSE MoreCla * 256 + (IF left > 255 THEN 0 ELSE left),
                   data |-> SubSeq(bytes, 1, n)],
         dev |-> [d EXCEPT !.pending = SubSeq(bytes, n + 1, Len(bytes)),
                           !.chain = <<>>]]

\* the storing card's answer to `frame` and its state after it
StoreExchange(d, frame) ==
    LET all == d.chain \o frame.data
        refuse == [resp |-> [sw |-> SwIncorrect, data |-> <<>>],
                   dev |-> [d EXCEPT !.chain = <<>>, !.pending = <<>>]]
    IN  IF frame.ins = "PutData" /\ frame.cla = ChainCla
        THEN [resp |-> [sw |-> SwSuccess, data |-> <<>>],
              dev |-> [d EXCEPT !.chain = all, !.pending = <<>>]]
        ELSE IF frame.ins = "PutData"
        THEN IF Len(all) > 5 /\ SubSeq(all, 1, 5) = SetObject(ObjectId)
             THEN [resp |-> [sw |-> SwSuccess, data |-> <<>>],
                   dev |-> [d EXCEPT !.chain = <<>>, !.pending = <<>>,
                                     !.store = SubSeq(all, 6, Len(all))]]
             ELSE refuse
        ELSE IF frame.ins = "GetData"
        THEN IF all # SetObject(ObjectId) THEN refuse
             ELSE IF d.store = <<>>
             THEN [resp |-> [sw |-> SwNotFound, data |-> <<>>],
                   dev |-> [d EXCEPT !.chain = <<>>, !.pending = <<>>]]
             ELSE SendFront(d, d.store)
        ELSE IF frame.ins = "GetResponseApdu" /\ d.pending # <<>>
        THEN SendFront(d, d.pending)
        ELSE refuse

\* a card that answers GENERAL AUTHENTICATE
SignCard == [mode |-> "sign", chain |-> <<>>, store |-> <<>>, pending |-> <<>>]

\* the bytes of a signature the card computed
Signature(n) == [i \in 1..n |-> (3 * i + 2) % 256]

\* the signature of an RSA-2048 key in its two nodes, and that of an
\* RSA-1024 key
ReplyRsa2048 == <<124, 130, 1, 4, 130, 130, 1, 0>> \o Signature(256)
ReplyRsa1024 == <<124, 129, 131, 130, 129, 128>> \o Signature(128)

\* what the signing card may send as the response data: replies in good
\* order, with bytes behind the inner or the outer node, with a wrong outer
\* or inner tag, cut short, and empty ones
AuthReplies ==
    { ReplyRsa2048, ReplyRsa1024,
      <<124, 4, 130, 2, 9, 8>>, <<124, 2, 130, 0>>,
      <<124, 5, 130, 2, 9, 8, 7>>, <<124, 4, 130, 2, 9, 8, 7>>,
      <<125, 4, 130, 2, 9, 8>>, <<124, 4, 129, 2, 9, 8>>,
      <<124, 5, 130, 2, 9, 8>>, <<124, 4, 130, 3, 9, 8>>,
      <<124, 129>>, <<124, 0>>, <<124>>, <<>> }

\* a card that answers GET DATA with objects other software has written
ObjectCard == [mode |-> "object", chain |-> <<>>, store |-> <<>>, pending |-> <<>>]

\* the bytes of a stored object
Stored(n) == [i \in 1..n |-> (7 * i + 11) % 256]

\* what the object card may send as the response data: objects in good
\* order of every length form, up to the largest and to one too large for
\* the output ceiling; objects with bytes behind the node; objects cut short
ObjectReplies ==
    { <<83, 0>>, <<83, 1, 18>>, <<84, 1, 18>>,
      <<83, 127>> \o Stored(127),
      <<83, 129, 128>> \o Stored(128),
      <<83, 129, 255>> \o Stored(255),
      <<83, 130, 1, 0>> \o Stored(256),
      <<83, 130, 2, 88>> \o Stored(600),
      <<83, 130, 11, 247>> \o Stored(3063),
      <<83, 130, 11, 254>> \o Stored(3070),
      <<83, 0, 0>>, <<83, 1, 18, 25>>,
      <<83, 129, 128>> \o Stored(130),
      <<83, 130, 1, 0>> \o Stored(257),
      <<83, 130, 2, 88>> \o Stored(601),
      <<83, 2, 18>>, <<83, 129, 128>> \o Stored(127),
      <<83, 130, 1, 0>> \o Stored(255),
      <<83, 130, 1>>, <<83, 129>>, <<83>>, <<>> }

\* the statuses a replying card refuses with
Refusals == { SwSecurity, SwIncorrect, SwNotFound }

\* the answers of the signing card or the object card to `frame`, each with
\* the card's state after it
ReplyExchanges(d, frame) ==
    LET command == IF d.mode = "sign" THEN "Authenticate" ELSE "GetData"
        replies == IF d.mode = "sign" THEN AuthReplies ELSE ObjectReplies
        refusals == { [resp |-> [sw |-> st, data |-> <<>>],
                       dev |-> [d EXCEPT !.pending = <<>>]] :
                      st \in Refusals }
    IN  IF frame.ins = command /\ frame.cla = ChainCla
        THEN { [resp |-> [sw |-> SwSuccess, data |-> <<>>], dev |-> d] }
        ELSE IF frame.ins = command
        THEN { SendFront(d, reply) : reply \in replies } \cup refusals
        ELSE IF frame.ins = "GetResponseApdu" /\ d.pending # <<>>
        THEN { SendFront(d, d.pending) } \cup refusals
        ELSE refusals

\* the application identifiers (lib.rs)
PIV_AID == <<160, 0, 0, 3, 8>>
YK_AID == <<160, 0, 0, 5, 39, 32, 1, 1>>

\* a card that may answer anything and whose selected application is kept
\* track of; the PIV application is the selected one at first
AppletCard ==
    [mode |-> "applets", chain |-> <<>>, store |-> <<>>, pending |-> <<>>,
     applet |-> "piv"]

\* the card after it answered `frame` with resp: a SELECT that succeeded has
\* made the application of the identifier the selected one
Selected(d, frame, resp) ==
    IF frame.ins = "SelectApplication" /\ resp.sw = SwSuccess
    THEN [d EXCEPT !.applet = IF frame.data = YK_AID THEN "yk" ELSE "piv"]
    ELSE d

\* a card that may answer anything, but sends at least one payload byte
\* with every status of class 0x61 it answers a "get more" frame with
DrainCard == [mode |-> "drain", chain |-> <<>>, store |-> <<>>, pending |-> <<>>]

\* what the draining card may answer `frame`, the k-th of the call, with
DrainResponses(o, k, frame) ==
    { r \in { [sw |-> st, data |-> Payload(k, n)] :
                st \in StatusesFor(o), n \in 0..MaxDrainBytes } :
        (frame.ins = "GetResponseApdu" /\ Hi(r.sw) = MoreCla)
            => Len(r.data) >= 1 }
    \cup { TransportError }

RECURSIVE RxBytes(_)
\* the payload bytes of the responses r
RxBytes(r) == IF r = <<>> THEN 0 ELSE Len(Head(r).data) + RxBytes(Tail(r))

\* the exchanges the card offers handler o for `frame`, having answered r
\* before during the call: each a response and the card's state after it
Exchanges(d, o, frame, r) ==
    IF d.mode = "store" THEN { StoreExchange(d, frame) }
    ELSE IF d.mode \in {"sign", "object"} THEN ReplyExchanges(d, frame)
    ELSE IF d.mode = "drain"
    THEN { [resp |-> x, dev |-> d] : x \in DrainResponses(o, Len(r) + 1, frame) }
    ELSE IF d.mode = "applets"
    THEN { [resp |-> x, dev |-> Selected(d, frame, x)] :
             x \in FreeResponses(o, Len(r) + 1, MaxRespBytes - RxBytes(r)) }
    ELSE { [resp |-> x, dev |-> d] :
             x \in FreeResponses(o, Len(r) + 1, MaxRespBytes - RxBytes(r)) }

(***************************************************************************)
(* transfer_data.                                                          *)
(***************************************************************************)
\* the payload size of the frame sent at in_offset
ThisSize(in_len, off) ==
    IF off + FrameMax < in_len THEN FrameMax ELSE in_len - off

\* the class byte of the frame sent at in_offset
FrameClaNeverChains(t, in_len, off) == t.cla
FrameCla(t, in_len, off) ==
    IF off + FrameMax < in_len THEN ChainCla ELSE t.cla

OutFrame(t, data, off) ==
    Frame(FrameCla(t, Len(data), off), t.ins, t.p1, t.p2,
          SubSeq(data, off + 1, off + ThisSize(Len(data), off)))

\* out_data.len() - response.data().len() on usize goes below zero
Underflows(out_len, resp_len) == out_len # 0 /\ resp_len > out_len

\* the outbound size check.  When the subtraction wraps (a build without
\* overflow checks) the difference is 2^64 - d with d <= 261, which is above
\* every max_out
OutboundTooBig(out_len, resp_len, max) ==
    /\ out_len # 0
    /\ IF resp_len > out_len THEN TRUE ELSE out_len - resp_len > max

\* the response ends the chain: !response.is_success() && (sw >> 8 != 0x61)
OutboundFailsWrongClass(s) == s # SwSuccess /\ Hi(s) = MoreCla
OutboundFails(s) == s # SwSuccess /\ Hi(s) # MoreCla

\* out_data.extend_from_slice(response.data())
AccumulatePrepended(out, data) == data \o out
Accumulate(out, data) == out \o data

\* one pass of the outbound loop after the frame's transmission: `checked`
\* says whether the build checks arithmetic overflow
OutStep(in_len, off, out, max, resp, checked) ==
    LET s == resp.sw
        cur == [next |-> "ret", off |-> off, out |-> out, sw |-> s,
                xres |-> NoXres]
    IN  IF resp = TransportError
        THEN [cur EXCEPT !.sw = 0, !.xres = XErr("PcscError")]
        ELSE IF OutboundFails(s)
        THEN [cur EXCEPT !.xres = XOk(s, out)]
        ELSE IF Underflows(Len(out), Len(resp.data)) /\ checked
        THEN [cur EXCEPT !.next = "panic", !.xres = XPanic]
        ELSE IF OutboundTooBig(Len(out), Len(resp.data), max)
        THEN [cur EXCEPT !.xres = XErr("SizeError")]
        ELSE LET out2 == Accumulate(out, resp.data)
                 off2 == off + ThisSize(in_len, off)
             IN  IF off2 >= in_len
                 THEN IF Hi(s) = MoreCla
                      THEN [cur EXCEPT !.next = "in", !.off = off2,
                                       !.out = out2]
                      ELSE [cur EXCEPT !.off = off2, !.out = out2,
                                       !.xres = XOk(s, out2)]
                 ELSE [cur EXCEPT !.next = "out", !.off = off2, !.out = out2]

\* the payload transfer_data returns when a "get more" frame is answered with
\* a failure status
InFailData(out) == <<>>

\* the inbound size check: out_data.len() + response.data().len() > max_out
InboundTooBigByDifference(out_len, resp_len, max) == out_len - resp_len > max
InboundTooBig(out_len, resp_len, max) == out_len + resp_len > max

\* one pass of the continuation loop after the "get more" frame's transmission
InStep(off, out, max, resp) ==
    LET s == resp.sw
        cur == [next |-> "ret", off |-> off, out |-> out, sw |-> s,
                xres |-> NoXres]
    IN  IF resp = TransportError
        THEN [cur EXCEPT !.sw = 0, !.xres = XErr("PcscError")]
        ELSE IF s # SwSuccess /\ Hi(s) # MoreCla
        THEN [cur EXCEPT !.xres = XOk(s, InFailData(out))]
        ELSE IF InboundTooBig(Len(out), Len(resp.data), max)
        THEN [cur EXCEPT !.xres = XErr("SizeError")]
        ELSE LET out2 == Accumulate(out, resp.data)
             IN  IF Hi(s) = MoreCla
                 THEN [cur EXCEPT !.next = "in", !.out = out2]
                 ELSE [cur EXCEPT !.out = out2, !.xres = XOk(s, out2)]

(***************************************************************************)
(* StatusWords (apdu.rs): the meaning of a status code.                    *)
(***************************************************************************)
\* 0x63Cn: verify failed, n tries left
IsVerifyFail(s) == s \div 16 = SwVerifyFail0 \div 16
Tries(s) == s % 16

(***************************************************************************)
(* verify_pin and change_ref.                                              *)
(***************************************************************************)
CB_PIN_MAX == 8

\* the secret is longer than CB_PIN_MAX
PinTooLongOffByOne(secret) == Len(secret) > CB_PIN_MAX + 1
PinTooLong(secret) == Len(secret) > CB_PIN_MAX

\* [0xff; CB_PIN_MAX] with the secret copied to its front; copy_from_slice
\* does not take a secret longer than the field
PinField(secret) ==
    [i \in 1..CB_PIN_MAX |-> IF i <= Len(secret) THEN secret[i] ELSE 255]

\* the data of verify_pin's query
VerifyDataAlwaysPadded(pin) == PinField(pin)
VerifyData(pin) == IF pin = <<>> THEN <<>> ELSE PinField(pin)

VerifyQuery(pin) == Frame(0, "Verify", 0, 128, VerifyData(pin))

\* verify_pin's result for the status of the response
VerifyPinResultLocked(s) ==
    IF s = SwSuccess THEN Ok(<<>>)
    ELSE IF s = SwAuthBlocked THEN Err("PinLocked")
    ELSE IF IsVerifyFail(s) THEN ErrTries("WrongPin", Tries(s))
    ELSE Err("GenericError")
VerifyPinResult(s) ==
    IF s = SwSuccess THEN Ok(<<>>)
    ELSE IF s = SwAuthBlocked THEN ErrTries("WrongPin", 0)
    ELSE IF IsVerifyFail(s) THEN ErrTries("WrongPin", Tries(s))
    ELSE Err("GenericError")

\* change_ref's template for the action
ChangeRefTempl(action) ==
    CASE action = "ChangePin" -> Templ(0, "ChangeReference", 0, 128)
      [] action = "ChangePuk" -> Templ(0, "ChangeReference", 0, 129)
      [] action = "UnblockPin" -> Templ(0, "ResetRetry", 0, 128)

\* change_ref's indata
ChangeRefData(current_pin, new_pin) == PinField(current_pin) \o PinField(new_pin)

\* change_ref's result for the final status
ChangeRefResult(s) ==
    IF s = SwSuccess THEN Ok(<<>>)
    ELSE IF s = SwAuthBlocked THEN Err("PinLocked")
    ELSE IF IsVerifyFail(s) THEN ErrTries("WrongPin", Tries(s))
    ELSE Err("GenericError")

(***************************************************************************)
(* Tlv (serialization.rs): the length-prefixed structure codec, by the      *)
(* three-form rule: a value shorter than 128 bytes has one length byte, one *)
(* of 128..255 bytes the marker 0x81 and one length byte, a longer one the  *)
(* marker 0x82 and two big-endian length bytes.                             *)
(***************************************************************************)
TlvLenSize(n) == IF n < 128 THEN 1 ELSE IF n <= 255 THEN 2 ELSE 3

TlvLenField(n) ==
    IF n < 128 THEN <<n>>
    ELSE IF n <= 255 THEN <<129, n>>
    ELSE <<130, n \div 256, n % 256>>

\* Tlv::write: the node written
TlvEncode(tag, value) == <<tag>> \o TlvLenField(Len(value)) \o value

Skip(b, n) == SubSeq(b, n + 1, Len(b))

\* Tlv::parse: the node at the front of b and what follows it
TlvParse(b) ==
    LET bad == [ok |-> FALSE, tag |-> 0, value |-> <<>>, rest |-> <<>>]
        hdr == IF Len(b) < 2 THEN 0
               ELSE IF b[2] < 128 THEN 2
               ELSE IF b[2] = 129 /\ Len(b) >= 3 THEN 3
               ELSE IF b[2] = 130 /\ Len(b) >= 4 THEN 4
               ELSE 0
        len == CASE hdr = 2 -> b[2]
                 [] hdr = 3 -> b[3]
                 [] hdr = 4 -> b[3] * 256 + b[4]
                 [] OTHER -> 0
    IN  IF hdr = 0 \/ Len(b) - hdr < len THEN bad
        ELSE [ok |-> TRUE, tag |-> b[1],
              value |-> SubSeq(b, hdr + 1, hdr + len),
              rest |-> Skip(b, hdr + len)]

(***************************************************************************)
(* authenticated_command.                                                  *)
(***************************************************************************)
Algorithms == {"Rsa1024", "Rsa2048", "EccP256", "EccP384"}

\* AlgorithmId as a byte (key.rs)
AlgId(alg) ==
    CASE alg = "Rsa1024" -> 6
      [] alg = "Rsa2048" -> 7
      [] alg = "EccP256" -> 17
      [] alg = "EccP384" -> 20

\* key_len of the match on the algorithm
AuthKeyLen(alg) ==
    CASE alg = "Rsa1024" -> 128
      [] alg = "Rsa2048" -> 256
      [] alg = "EccP256" -> 32
      [] alg = "EccP384" -> 48

\* the input length passes the match on the algorithm
AuthValidSignOnly(alg, decipher, in_len) ==
    IF alg \in {"Rsa1024", "Rsa2048"}
    THEN in_len = AuthKeyLen(alg)
    ELSE in_len <= AuthKeyLen(alg)
AuthValid(alg, decipher, in_len) ==
    IF alg \in {"Rsa1024", "Rsa2048"}
    THEN in_len = AuthKeyLen(alg)
    ELSE ~ ( \/ (~decipher /\ in_len > AuthKeyLen(alg))
             \/ (decipher /\ in_len # AuthKeyLen(alg) * 2 + 1) )

\* let bytes = ...
AuthBytesTwoForms(in_len) == IF in_len < 128 THEN 1 ELSE 2
AuthBytes(in_len) == IF in_len < 128 THEN 1 ELSE IF in_len < 255 THEN 2 ELSE 3

\* the tag of the data node
AuthTag(alg, decipher) ==
    IF alg \in {"EccP256", "EccP384"} /\ decipher THEN 133 ELSE 129

\* both assert_eq! of the closure hold
AuthAssertsHold(sign_in) ==
    /\ Len(TlvEncode(130, <<>>)) = 2
    /\ Len(TlvEncode(129, sign_in)) = 1 + AuthBytes(Len(sign_in)) + Len(sign_in)

\* indata[..offset]: the outer node 0x7c of the declared length, holding what
\* the closure wrote into the zeroed buffer
AuthRequest(sign_in, alg, decipher) ==
    LET declared == Len(sign_in) + AuthBytes(Len(sign_in)) + 3
        written == TlvEncode(130, <<>>) \o TlvEncode(AuthTag(alg, decipher), sign_in)
    IN  <<124>> \o TlvLenField(declared)
        \o [i \in 1..declared |-> IF i <= Len(written) THEN written[i] ELSE 0]

AuthTempl(alg, key) == Templ(0, "Authenticate", AlgId(alg), key)

\* authenticated_command after transfer_data returned the response x
AuthResultAnyInnerTag(x) ==
    IF x.sw # SwSuccess
    THEN IF x.sw = SwSecurity THEN Err("AuthenticationError")
         ELSE Err("GenericError")
    ELSE LET outer == TlvParse(x.data)
             inner == TlvParse(outer.value)
         IN  IF ~outer.ok THEN Err("ParseError")
             ELSE IF outer.tag # 124 THEN Err("ParseError")
             ELSE IF ~inner.ok THEN Err("ParseError")
             ELSE Ok(inner.value)
AuthResult(x) ==
    IF x.sw # SwSuccess
    THEN IF x.sw = SwSecurity THEN Err("AuthenticationError")
         ELSE Err("GenericError")
    ELSE LET outer == TlvParse(x.data)
             inner == TlvParse(outer.value)
         IN  IF ~outer.ok THEN Err("ParseError")
             ELSE IF outer.tag # 124 THEN Err("ParseError")
             ELSE IF ~inner.ok THEN Err("ParseError")
             ELSE IF inner.tag # 130 THEN Err("ParseError")
             ELSE Ok(inner.value)

(***************************************************************************)
(* fetch_object and save_object.                                           *)
(***************************************************************************)
\* the buffer ceilings (lib.rs)
CB_BUF_MAX == 3072
CB_OBJ_MAX == CB_BUF_MAX - 9

\* save_object rejects the content
ObjectTooBig(indata) == Len(indata) > CB_OBJ_MAX

\* data[..len]: the addressing field and the node 0x53 of the content
SaveRequest(id, indata) == SetObject(id) \o TlvEncode(83, indata)

\* Tlv::write finds room in what set_object left of the buffer
SaveFits(id, indata) == Len(SaveRequest(id, indata)) <= CB_BUF_MAX

ObjectTempl(ins) == Templ(0, ins, 63, 255)

\* save_object's result for the final status
SaveResult(s) ==
    IF s = SwSuccess THEN Ok(<<>>)
    ELSE IF s = SwSecurity THEN Err("AuthenticationError")
    ELSE Err("GenericError")

\* fetch_object after transfer_data returned the response x
FetchResultKeepsRest(x) ==
    IF x.sw # SwSuccess
    THEN IF x.sw = SwNotFound THEN Err("NotFound") ELSE Err("GenericError")
    ELSE LET tlv == TlvParse(x.data)
         IN  IF ~tlv.ok THEN Err("ParseError") ELSE Ok(tlv.value)
FetchResult(x) ==
    IF x.sw # SwSuccess
    THEN IF x.sw = SwNotFound THEN Err("NotFound") ELSE Err("GenericError")
    ELSE LET tlv == TlvParse(x.data)
         IN  IF ~tlv.ok THEN Err("ParseError")
             ELSE IF tlv.rest # <<>> THEN Err("SizeError")
             ELSE Ok(tlv.value)

(***************************************************************************)
(* get_version.                                                            *)
(***************************************************************************)
VersionFrame == Frame(0, "GetVersion", 0, 0, <<>>)

\* get_version's result for the response: the version is its first three
\* bytes
VersionResult(resp) ==
    IF resp.sw # SwSuccess THEN Err("GenericError")
    ELSE IF Len(resp.data) < 3 THEN Err("SizeError")
    ELSE Ok(SubSeq(resp.data, 1, 3))

(***************************************************************************)
(* get_serial.                                                             *)
(***************************************************************************)
\* version.major < 5: the serial is read from the yk applet
SerialLegacyUpTo5(major) == major <= 5
SerialLegacy(major) == major < 5

SelectFrame(aid) == Frame(0, "SelectApplication", 4, 0, aid)
LegacySerialFrame == Frame(0, "0x01", 16, 0, <<>>)
SerialFrame == Frame(0, "GetSerial", 0, 0, <<>>)

\* u32::from_be_bytes
FromBeBytes(b) == ((b[1] * 256 + b[2]) * 256 + b[3]) * 256 + b[4]

\* response.data()[..4] and its conversion: the slice panics on fewer than
\* four bytes
SerialResult(data) ==
    IF Len(data) < 4 THEN Panic ELSE Ok(<<FromBeBytes(data)>>)

(***************************************************************************)
(* set_mgm_key.                                                            *)
(***************************************************************************)
\* the length of the management key (mgm.rs), and the bytes that precede it
\* (yubikey.rs)
DES_LEN_3DES == 24
ALGO_3DES == 3
KEY_CARDMGM == 155

\* data: the algorithm, the key reference, the key length, the key
MgmData(new_key) == <<ALGO_3DES, KEY_CARDMGM, DES_LEN_3DES>> \o new_key

MgmFrame(new_key, require_touch) ==
    Frame(0, "SetMgmKey", 255, IF require_touch THEN 254 ELSE 255,
          MgmData(new_key))

\* set_mgm_key's result for the status of the response
MgmResult(s) == IF s = SwSuccess THEN Ok(<<>>) ELSE Err("GenericError")

(***************************************************************************)
(* The local buffers of the handlers that take secrets, and their release. *)
(***************************************************************************)
\* a local byte array, wrapped in Zeroizing or not
Buffer(bytes, zeroizing) == [bytes |-> bytes, zeroizing |-> zeroizing]

Zeros(n) == [i \in 1..n |-> 0]

\* what the memory of a buffer holds once the buffer is released: Zeroizing
\* overwrites it on drop, a plain array is left as it is
Residue(buf) == IF buf.zeroizing THEN Zeros(Len(buf.bytes)) ELSE buf.bytes

\* verify_pin: let mut data = Zeroizing::new([0xff; CB_PIN_MAX])
VerifyBuffer(pin) == Buffer(PinField(pin), TRUE)

\* change_ref: let mut indata = Zeroizing::new([0xff; CB_PIN_MAX * 2])
ChangeRefBuffer(current_pin, new_pin) ==
    Buffer(ChangeRefData(current_pin, new_pin), TRUE)

\* set_mgm_key: let mut data = [0u8; DES_LEN_3DES + 3]
MgmBuffer(new_key) == Buffer(MgmData(new_key), FALSE)

\* authenticated_command: let mut indata = [0u8; 1024], with the request
\* written to its front
AuthBuffer(request) ==
    Buffer(request \o Zeros(1024 - Len(request)), FALSE)

\* the buffers a handler holds while transfer_data runs: they are released
\* when the handler returns
HeldBuffers(o, c) ==
    CASE o = "change_ref" -> <<ChangeRefBuffer(c.pin, c.new_pin)>>
      [] o = "authenticated_command" ->
            <<AuthBuffer(AuthRequest(c.data, c.alg, c.decipher))>>
      [] OTHER -> <<>>

\* the memory the buffers bs leave behind
Residues(bs) == [i \in 1..Len(bs) |-> Residue(bs[i])]

\* what the handler makes of transfer_data's return value
AfterTransfer(o, c, x) ==
    IF x.kind = "Panic" THEN Panic
    ELSE IF x.kind = "Err" THEN Err(x.err)
    ELSE CASE o = "change_ref" -> ChangeRefResult(x.sw)
           [] o = "authenticated_command" -> AuthResult(x)
           [] o = "fetch_object" -> FetchResult(x)
           [] o = "save_object" -> SaveResult(x.sw)
           [] OTHER -> Ok(x.data)

\* the state after one pass `st` of either loop
Advance(st) ==
    /\ in_offset' = st.off
    /\ out_data' = st.out
    /\ sw' = st.sw
    /\ xres' = st.xres
    /\ pc' = CASE st.next = "out" -> "xfer_out"
              [] st.next = "in" -> "xfer_in"
              [] st.next = "panic" -> "panic"
              [] OTHER -> "done"
    /\ result' = IF st.next \in {"ret", "panic"}
                 THEN AfterTransfer(op, call, st.xres)
                 ELSE result
    /\ saved' = IF op = "save_object" /\ st.next = "ret"
                   /\ dev.mode = "store"
                   /\ AfterTransfer(op, call, st.xres).kind = "Ok"
                THEN [set |-> TRUE, data |-> call.data]
                ELSE saved
    /\ released' = IF st.next \in {"ret", "panic"}
                   THEN released \o Residues(HeldBuffers(op, call))
                   ELSE released

\* transfer_data's outbound loop: one frame of the chain
TransferOut ==
    /\ pc = "xfer_out"
    /\ LET frame == OutFrame(templ, in_data, in_offset)
       IN  \E x \in Exchanges(dev, op, frame, rx) :
           \E checked \in IF Underflows(Len(out_data), Len(x.resp.data))
                           /\ (x.resp.sw = SwSuccess \/ Hi(x.resp.sw) = MoreCla)
                          THEN BOOLEAN ELSE {FALSE} :
             /\ frames' = Append(frames, frame)
             /\ rx' = Append(rx, x.resp)
             /\ dev' = x.dev
             /\ Advance(OutStep(Len(in_data), in_offset, out_data, max_out,
                                x.resp, checked))
    /\ UNCHANGED <<op, call, templ, in_data, max_out, live, holder, owner>>

GetMoreCount == Cardinality({i \in 1..Len(frames) : frames[i].ins = "GetResponseApdu"})

\* transfer_data's continuation loop: one "get more" frame
TransferIn ==
    /\ pc = "xfer_in"
    /\ dev.mode = "free" => GetMoreCount < MaxGetMore
    /\ LET frame == Frame(0, "GetResponseApdu", 0, 0, <<>>)
       IN  \E x \in Exchanges(dev, op, frame, rx) :
             /\ frames' = Append(frames, frame)
             /\ rx' = Append(rx, x.resp)
             /\ dev' = x.dev
             /\ Advance(InStep(in_offset, out_data, max_out, x.resp))
    /\ UNCHANGED <<op, call, templ, in_data, max_out, live, holder, owner>>

(***************************************************************************)
(* Calls.                                                                  *)
(***************************************************************************)
TransferLens ==
    { k * FrameMax + d : k \in 0..MaxChunks, d \in {0, 1} }

MaxOuts == {1, 1024}
TemplClas == {0, 128}

\* a fresh call on the Transaction of a session that has one: the locals of
\* the previous call are gone
Begin(o, c, t, data, max, p) ==
    /\ IF o = "none" THEN owner' = 0 ELSE owner' \in live
    /\ op' = o
    /\ call' = c
    /\ templ' = t
    /\ in_data' = data
    /\ max_out' = max
    /\ in_offset' = 0
    /\ out_data' = <<>>
    /\ sw' = 0
    /\ frames' = <<>>
    /\ rx' = <<>>
    /\ xres' = NoXres
    /\ pc' = p

\* a caller of transfer_data itself
CallTransfer ==
    /\ pc = "idle"
    /\ dev.mode = "free"
    /\ \E len \in TransferLens, max \in MaxOuts, cla \in TemplClas :
         Begin("transfer_data", NoCall, Templ(cla, "PutData", 63, 255),
               InBytes(len, 7), max, "xfer_out")
    /\ result' = NoResult
    /\ released' = <<>>
    /\ UNCHANGED <<dev, saved, live, holder>>

\* the secrets the callers pass: digits, of every length up to one too long
PinLens == {0, 1, CB_PIN_MAX, CB_PIN_MAX + 1}
PinOf(n, seed) == [i \in 1..n |-> 48 + ((seed + i) % 10)]
Pins == { PinOf(n, 1) : n \in PinLens }
NewPins == { PinOf(n, 4) : n \in PinLens }

\* a handler that returns without transmitting
Reject(o, c, e) ==
    /\ Begin(o, c, NoTempl, <<>>, 0, "done")
    /\ result' = Err(e)
    /\ UNCHANGED <<dev, saved, live, holder>>

\* verify_pin up to its transmission
CallVerifyPin ==
    /\ pc = "idle"
    /\ dev.mode = "free"
    /\ \E pin \in Pins :
         /\ LET c == [NoCall EXCEPT !.pin = pin]
            IN  IF PinTooLong(pin)
                THEN Reject("verify_pin", c, "SizeError")
                ELSE /\ Begin("verify_pin", c, NoTempl, <<>>, 0, "verify_tx")
                     /\ result' = NoResult
                     /\ UNCHANGED <<dev, saved, live, holder>>
         /\ released' = IF PinTooLong(pin) \/ pin = <<>> THEN <<>>
                         ELSE <<Residue(VerifyBuffer(pin))>>

\* verify_pin: query.transmit and the match on the status
VerifyPinTransmit ==
    /\ pc = "verify_tx"
    /\ LET frame == VerifyQuery(call.pin)
       IN  \E x \in Exchanges(dev, op, frame, rx) :
             /\ frames' = Append(frames, frame)
             /\ rx' = Append(rx, x.resp)
             /\ dev' = x.dev
             /\ result' = IF x.resp = TransportError THEN Err("PcscError")
                          ELSE VerifyPinResult(x.resp.sw)
    /\ pc' = "done"
    /\ UNCHANGED <<op, call, templ, in_data, max_out, in_offset, out_data,
                   sw, xres, saved, released, live, holder, owner>>

\* change_ref up to transfer_data's first frame
CallChangeRef ==
    /\ pc = "idle"
    /\ dev.mode = "free"
    /\ \E action \in {"ChangePin", "ChangePuk", "UnblockPin"},
          cur \in Pins, new \in NewPins :
         LET c == [NoCall EXCEPT !.action = action, !.pin = cur, !.new_pin = new]
         IN  IF PinTooLong(cur) \/ PinTooLong(new)
             THEN Reject("change_ref", c, "SizeError")
             ELSE /\ Begin("change_ref", c, ChangeRefTempl(action),
                           ChangeRefBuffer(cur, new).bytes, 255, "xfer_out")
                  /\ result' = NoResult
                  /\ UNCHANGED <<dev, saved, live, holder>>
    /\ released' = <<>>

\* the bytes of authenticated_command's sign_in
SignIn(n) == [i \in 1..n |-> (5 * i + 1) % 256]

\* authenticated_command up to transfer_data's first frame
CallAuthenticatedCommand ==
    /\ pc = "idle"
    /\ dev.mode \in {"free", "sign"}
    /\ \E alg \in Algorithms, decipher \in BOOLEAN, n \in 0..MaxInLen :
         LET c == [NoCall EXCEPT !.alg = alg, !.decipher = decipher,
                                 !.data = SignIn(n)]
         IN  IF ~AuthValid(alg, decipher, n)
             THEN /\ Reject("authenticated_command", c, "SizeError")
                  /\ released' = <<Residue(AuthBuffer(<<>>))>>
             ELSE IF ~AuthAssertsHold(SignIn(n))
             THEN /\ Begin("authenticated_command", c, NoTempl, <<>>, 0, "panic")
                  /\ result' = Panic
                  /\ released' = Residues(HeldBuffers("authenticated_command", c))
                  /\ UNCHANGED <<dev, saved, live, holder>>
             ELSE /\ Begin("authenticated_command", c, AuthTempl(alg, 154),
                           AuthRequest(SignIn(n), alg, decipher), 1024,
                           "xfer_out")
                  /\ result' = NoResult
                  /\ released' = <<>>
                  /\ UNCHANGED <<dev, saved, live, holder>>

\* get_version up to its transmission
CallGetVersion ==
    /\ pc = "idle"
    /\ dev.mode \in {"free", "applets"}
    /\ Begin("get_version", NoCall, NoTempl, <<>>, 0, "version_tx")
    /\ result' = NoResult
    /\ released' = <<>>
    /\ UNCHANGED <<dev, saved, live, holder>>

\* get_version: the transmission and the checks of the response
GetVersionTransmit ==
    /\ pc = "version_tx"
    /\ \E x \in Exchanges(dev, op, VersionFrame, rx) :
         /\ frames' = Append(frames, VersionFrame)
         /\ rx' = Append(rx, x.resp)
         /\ dev' = x.dev
         /\ result' = IF x.resp = TransportError THEN Err("PcscError")
                      ELSE VersionResult(x.resp)
    /\ pc' = "done"
    /\ UNCHANGED <<op, call, templ, in_data, max_out, in_offset, out_data,
                   sw, xres, saved, released, live, holder, owner>>

\* the management keys the callers set
MgmKeys == { [i \in 1..DES_LEN_3DES |-> (seed * i) % 256] : seed \in {1, 9} }

\* set_mgm_key up to its transmission
CallSetMgmKey ==
    /\ pc = "idle"
    /\ dev.mode = "free"
    /\ \E new_key \in MgmKeys, require_touch \in BOOLEAN :
         Begin("set_mgm_key",
               [NoCall EXCEPT !.data = new_key, !.require_touch = require_touch],
               NoTempl, <<>>, 0, "mgm_tx")
    /\ result' = NoResult
    /\ released' = <<>>
    /\ UNCHANGED <<dev, saved, live, holder>>

\* set_mgm_key: the transmission, the check of the status and the return
SetMgmKeyTransmit ==
    /\ pc = "mgm_tx"
    /\ LET frame == MgmFrame(call.data, call.require_touch)
       IN  \E x \in Exchanges(dev, op, frame, rx) :
             /\ frames' = Append(frames, frame)
             /\ rx' = Append(rx, x.resp)
             /\ dev' = x.dev
             /\ result' = IF x.resp = TransportError THEN Err("PcscError")
                          ELSE MgmResult(x.resp.sw)
    /\ pc' = "done"
    /\ released' = <<Residue(MgmBuffer(call.data))>>
    /\ UNCHANGED <<op, call, templ, in_data, max_out, in_offset, out_data,
                   sw, xres, saved, live, holder, owner>>

\* one frame of get_serial and the check of its status: on success the
\* handler goes on at `next` (or returns the serial converted from response
\* number `from`), otherwise it returns the error
SerialTransmit(frame, next, from) ==
    /\ \E x \in Exchanges(dev, op, frame, rx) :
         /\ frames' = Append(frames, frame)
         /\ rx' = Append(rx, x.resp)
         /\ dev' = x.dev
         /\ IF x.resp = TransportError
            THEN pc' = "done" /\ result' = Err("PcscError")
            ELSE IF x.resp.sw # SwSuccess
            THEN pc' = "done" /\ result' = Err("GenericError")
            ELSE IF next # "ret"
            THEN pc' = next /\ result' = result
            ELSE LET value == SerialResult(Append(rx, x.resp)[from].data)
                 IN  /\ result' = value
                     /\ pc' = IF value = Panic THEN "panic" ELSE "done"
    /\ UNCHANGED <<op, call, templ, in_data, max_out, in_offset, out_data,
                   sw, xres, saved, released, live, holder, owner>>

Majors == {4, 5, 6}

\* get_serial up to its first transmission
CallGetSerial ==
    /\ pc = "idle"
    /\ dev.mode \in {"free", "applets"}
    /\ \E major \in Majors :
         Begin("get_serial", [NoCall EXCEPT !.major = major], NoTempl, <<>>, 0,
               IF SerialLegacy(major) THEN "serial_select" ELSE "serial_get5")
    /\ result' = NoResult
    /\ released' = <<>>
    /\ UNCHANGED <<dev, saved, live, holder>>

\* the response that carries the serial: the second of the legacy sequence,
\* the only one of the direct query
NoValue == 0
LegacySerial == 2
Yk5Serial == 1

\* get_serial: select the yk applet
SerialSelect ==
    /\ pc = "serial_select"
    /\ SerialTransmit(SelectFrame(YK_AID), "serial_get", NoValue)

\* get_serial: the yk applet's serial command
SerialGet ==
    /\ pc = "serial_get"
    /\ SerialTransmit(LegacySerialFrame, "serial_reselect", NoValue)

\* get_serial: reselect the PIV applet, and the conversion of the serial
SerialReselect ==
    /\ pc = "serial_reselect"
    /\ SerialTransmit(SelectFrame(PIV_AID), "ret", LegacySerial)

\* get_serial: the PIV applet's serial command, and the conversion
SerialGet5 ==
    /\ pc = "serial_get5"
    /\ SerialTransmit(SerialFrame, "ret", Yk5Serial)

\* the contents the callers save
ObjBytes(n) == [i \in 1..n |-> (7 * i + 11) % 256]
ObjLens(d) ==
    IF d.mode = "free"
    THEN {0, 248, CB_OBJ_MAX + 1}
    ELSE {0, 1, 127, 128, 247, 248, 255, 256, 600, CB_OBJ_MAX - 1,
          CB_OBJ_MAX, CB_OBJ_MAX + 1}

\* save_object up to transfer_data's first frame
CallSaveObject ==
    /\ pc = "idle"
    /\ \E n \in ObjLens(dev) :
         LET c == [NoCall EXCEPT !.id = ObjectId, !.data = ObjBytes(n)]
         IN  IF ObjectTooBig(c.data) \/ ~SaveFits(c.id, c.data)
             THEN Reject("save_object", c, "SizeError")
             ELSE /\ Begin("save_object", c, ObjectTempl("PutData"),
                           SaveRequest(c.id, c.data), 255, "xfer_out")
                  /\ result' = NoResult
                  /\ UNCHANGED <<dev, saved, live, holder>>
    /\ released' = <<>>

\* fetch_object up to transfer_data's first frame
CallFetchObject ==
    /\ pc = "idle"
    /\ Begin("fetch_object", [NoCall EXCEPT !.id = ObjectId],
             ObjectTempl("GetData"), SetObject(ObjectId), CB_BUF_MAX,
             "xfer_out")
    /\ result' = NoResult
    /\ released' = <<>>
    /\ UNCHANGED <<dev, saved, live, holder>>

\* the handler has returned; the session goes on
Return ==
    /\ pc = "done"
    /\ Begin("none", NoCall, NoTempl, <<>>, 0, "idle")
    /\ result' = NoResult
    /\ released' = <<>>
    /\ UNCHANGED <<dev, saved, live, holder>>

Init ==
    /\ pc = "idle"
    /\ op = "none"
    /\ call = NoCall
    /\ templ = NoTempl
    /\ in_data = <<>>
    /\ max_out = 0
    /\ in_offset = 0
    /\ out_data = <<>>
    /\ sw = 0
    /\ frames = <<>>
    /\ rx = <<>>
    /\ xres = NoXres
    /\ result = NoResult
    /\ dev = FreeCard
    /\ saved = [set |-> FALSE, data |-> <<>>]
    /\ released = <<>>
    /\ live = {1}
    /\ holder = 1
    /\ owner = 0

Next ==
    \/ CallTransfer
    \/ CallVerifyPin
    \/ VerifyPinTransmit
    \/ CallChangeRef
    \/ CallAuthenticatedCommand
    \/ CallSetMgmKey
    \/ SetMgmKeyTransmit
    \/ CallGetVersion
    \/ GetVersionTransmit
    \/ CallGetSerial
    \/ SerialSelect
    \/ SerialGet
    \/ SerialReselect
    \/ SerialGet5
    \/ CallSaveObject
    \/ CallFetchObject
    \/ TransferOut
    \/ TransferIn
    \/ Return

Spec == Init /\ [][Next]_vars

(***************************************************************************)
(* The session with the storing card: objects are saved and fetched.       *)
(***************************************************************************)
InitObject ==
    /\ pc = "idle"
    /\ op = "none"
    /\ call = NoCall
    /\ templ = NoTempl
    /\ in_data = <<>>
    /\ max_out = 0
    /\ in_offset = 0
    /\ out_data = <<>>
    /\ sw = 0
    /\ frames = <<>>
    /\ rx = <<>>
    /\ xres = NoXres
    /\ result = NoResult
    /\ dev = StoreCard
    /\ saved = [set |-> FALSE, data |-> <<>>]
    /\ released = <<>>
    /\ live = {1}
    /\ holder = 1
    /\ owner = 0

NextObject ==
    \/ CallSaveObject
    \/ CallFetchObject
    \/ TransferOut
    \/ TransferIn
    \/ Return

SpecObject == InitObject /\ [][NextObject]_vars

(***************************************************************************)
(* The session with the signing card.                                      *)
(***************************************************************************)
InitAuth ==
    /\ pc = "idle"
    /\ op = "none"
    /\ call = NoCall
    /\ templ = NoTempl
    /\ in_data = <<>>
    /\ max_out = 0
    /\ in_offset = 0
    /\ out_data = <<>>
    /\ sw = 0
    /\ frames = <<>>
    /\ rx = <<>>
    /\ xres = NoXres
    /\ result = NoResult
    /\ dev = SignCard
    /\ saved = [set |-> FALSE, data |-> <<>>]
    /\ released = <<>>
    /\ live = {1}
    /\ holder = 1
    /\ owner = 0

NextAuth ==
    \/ CallAuthenticatedCommand
    \/ TransferOut
    \/ TransferIn
    \/ Return

SpecAuth == InitAuth /\ [][NextAuth]_vars

(***************************************************************************)
(* The session with the object card.                                       *)
(***************************************************************************)
InitFetch ==
    /\ pc = "idle"
    /\ op = "none"
    /\ call = NoCall
    /\ templ = NoTempl
    /\ in_data = <<>>
    /\ max_out = 0
    /\ in_offset = 0
    /\ out_data = <<>>
    /\ sw = 0
    /\ frames = <<>>
    /\ rx = <<>>
    /\ xres = NoXres
    /\ result = NoResult
    /\ dev = ObjectCard
    /\ saved = [set |-> FALSE, data |-> <<>>]
    /\ released = <<>>
    /\ live = {1}
    /\ holder = 1
    /\ owner = 0

NextFetch ==
    \/ CallFetchObject
    \/ TransferOut
    \/ TransferIn
    \/ Return

SpecFetch == InitFetch /\ [][NextFetch]_vars

(***************************************************************************)
(* The session with the draining card.  A handler is one sequential        *)
(* blocking call and every transmission completes or fails, so a loop of   *)
(* transfer_data that can take its next step does take it.                 *)
(***************************************************************************)
\* a caller of transfer_data with a small output ceiling
CallTransferSmall ==
    /\ pc = "idle"
    /\ dev.mode = "drain"
    /\ \E len \in {0, FrameMax + 1}, max \in 0..MaxSmallOut :
         Begin("transfer_data", NoCall, Templ(0, "GetData", 63, 255),
               InBytes(len, 7), max, "xfer_out")
    /\ result' = NoResult
    /\ released' = <<>>
    /\ UNCHANGED <<dev, saved, live, holder>>

InitDrain ==
    /\ pc = "idle"
    /\ op = "none"
    /\ call = NoCall
    /\ templ = NoTempl
    /\ in_data = <<>>
    /\ max_out = 0
    /\ in_offset = 0
    /\ out_data = <<>>
    /\ sw = 0
    /\ frames = <<>>
    /\ rx = <<>>
    /\ xres = NoXres
    /\ result = NoResult
    /\ dev = DrainCard
    /\ saved = [set |-> FALSE, data |-> <<>>]
    /\ released = <<>>
    /\ live = {1}
    /\ holder = 1
    /\ owner = 0

NextDrain ==
    \/ CallTransferSmall
    \/ TransferOut
    \/ TransferIn
    \/ Return

SpecDrain ==
    /\ InitDrain
    /\ [][NextDrain]_vars
    /\ WF_vars(TransferOut)
    /\ WF_vars(TransferIn)

(***************************************************************************)
(* The session with the card whose selected application is kept track of.  *)
(***************************************************************************)
InitSerial ==
    /\ pc = "idle"
    /\ op = "none"
    /\ call = NoCall
    /\ templ = NoTempl
    /\ in_data = <<>>
    /\ max_out = 0
    /\ in_offset = 0
    /\ out_data = <<>>
    /\ sw = 0
    /\ frames = <<>>
    /\ rx = <<>>
    /\ xres = NoXres
    /\ result = NoResult
    /\ dev = AppletCard
    /\ saved = [set |-> FALSE, data |-> <<>>]
    /\ released = <<>>
    /\ live = {1}
    /\ holder = 1
    /\ owner = 0

NextSerial ==
    \/ CallGetVersion
    \/ GetVersionTransmit
    \/ CallGetSerial
    \/ SerialSelect
    \/ SerialGet
    \/ SerialReselect
    \/ SerialGet5
    \/ Return

SpecSerial == InitSerial /\ [][NextSerial]_vars

(***************************************************************************)
(* Sessions: callers that open a Transaction on the one card, call         *)
(* handlers on it and let it go out of scope.  The transport grants the    *)
(* card's transaction to one holder at a time (pcsc is not part of the     *)
(* source under study).                                                    *)
(***************************************************************************)
Sessions == {1, 2}

\* card.transaction(): the transport grants exclusive access when nobody
\* holds it
CardGrantsAlways(h) == TRUE
CardGrants(h) == h = 0

\* the card's transaction after the Transaction of session s is dropped: the
\* field `inner` goes with the struct, which ends the transaction it holds
AfterDropLeaks(h, s) == h
AfterDrop(h, s) == IF h = s THEN 0 ELSE h

\* Transaction::new by session s, at any moment of another session's call;
\* it returns a Transaction only when the card grants its transaction
NewTransaction(s) ==
    /\ s \notin live
    /\ CardGrants(holder)
    /\ live' = live \cup {s}
    /\ holder' = s
    /\ UNCHANGED <<pc, op, call, templ, in_data, max_out, in_offset, out_data,
                   sw, frames, rx, xres, result, dev, saved, released, owner>>

\* the Transaction of session s goes out of scope, between two calls or with
\* the result of the last one, be it Ok or an error
DropTransaction(s) ==
    /\ s \in live
    /\ pc = "idle" \/ (pc = "done" /\ owner = s)
    /\ live' = live \ {s}
    /\ holder' = AfterDrop(holder, s)
    /\ Begin("none", NoCall, NoTempl, <<>>, 0, "idle")
    /\ result' = NoResult
    /\ released' = <<>>
    /\ UNCHANGED <<dev, saved>>

InitSession ==
    /\ pc = "idle"
    /\ op = "none"
    /\ call = NoCall
    /\ templ = NoTempl
    /\ in_data = <<>>
    /\ max_out = 0
    /\ in_offset = 0
    /\ out_data = <<>>
    /\ sw = 0
    /\ frames = <<>>
    /\ rx = <<>>
    /\ xres = NoXres
    /\ result = NoResult
    /\ dev = FreeCard
    /\ saved = [set |-> FALSE, data |-> <<>>]
    /\ released = <<>>
    /\ live = {}
    /\ holder = 0
    /\ owner = 0

NextSession ==
    \/ \E s \in Sessions : NewTransaction(s)
    \/ \E s \in Sessions : DropTransaction(s)
    \/ CallTransfer
    \/ TransferOut
    \/ TransferIn
    \/ Return

SpecSession == InitSession /\ [][NextSession]_vars

(***************************************************************************)
(* What the claims speak of.                                               *)
(***************************************************************************)
IsGetMore(f) == f.ins = "GetResponseApdu"

\* the frames of the outbound phase: they precede every "get more" frame
NOut == Len(frames) - GetMoreCount

\* max(1, ceil(len / 255))
CeilFrames(len) ==
    IF len = 0 THEN 1 ELSE (len + FrameMax - 1) \div FrameMax

RECURSIVE FlatData(_)
\* the payloads of frames or responses, concatenated in order
FlatData(fs) ==
    IF fs = <<>> THEN <<>> ELSE Head(fs).data \o FlatData(Tail(fs))

Continues(r) == r # TransportError /\ (r.sw = SwSuccess \/ Hi(r.sw) = MoreCla)

InTransfer == op = "transfer_data" /\ pc \in {"xfer_out", "xfer_in", "done", "panic"}

\* the outbound loop is over: the continuation loop runs, or the call is over
OutboundOver == op = "transfer_data" /\ pc \in {"xfer_in", "done", "panic"}

ChainingShape ==
    /\ NOut = CeilFrames(Len(in_data))
    /\ FlatData(SubSeq(frames, 1, NOut)) = in_data
    /\ \A i \in 1..(NOut - 1) :
         frames[i].cla = ChainCla /\ Len(frames[i].data) = FrameMax
    /\ frames[NOut].cla = templ.cla

(***************************************************************************)
(* C1: outbound chaining.  When every outbound response has status 0x9000   *)
(* or class 0x61 and no size error is raised, the outbound phase sends      *)
(* exactly max(1, ceil(L/255)) frames, their payloads concatenated are the  *)
(* input, every frame but the last has class 0x10 and 255 payload bytes,    *)
(* and the last has the template's class byte.                              *)
(***************************************************************************)
C1_OutboundChaining ==
    ( /\ OutboundOver
      /\ \A i \in 1..NOut : Continues(rx[i])
      /\ xres # XErr("SizeError") )
    => ChainingShape

\* C1 of the calls that did not abort on the overflow of the outbound size
\* check: there the chain has the claimed shape
C1_ChainingUnlessPanic ==
    ( /\ OutboundOver
      /\ pc # "panic"
      /\ \A i \in 1..NOut : Continues(rx[i])
      /\ xres # XErr("SizeError") )
    => ChainingShape

MoreResponses ==
    Cardinality({ i \in NOut..Len(rx) : i >= 1 /\ Hi(rx[i].sw) = MoreCla })

Returned == op = "transfer_data" /\ pc = "done" /\ xres.kind = "Ok"

(***************************************************************************)
(* C2: continuation.  As claimed: when transfer_data returns a response,    *)
(* the "get more" frames issued are as many as the responses of class 0x61  *)
(* from the last outbound frame's on, and the payload returned is the       *)
(* concatenation of all response payloads in arrival order.                 *)
(***************************************************************************)
C2_ContinuationAsClaimed ==
    Returned =>
        /\ GetMoreCount = MoreResponses
        /\ xres.data = FlatData(rx)

(***************************************************************************)
(* C2 as amended: when transfer_data returns a response, the "get more"     *)
(* frames issued are as many as the responses of class 0x61 from the last   *)
(* outbound frame's on, and the last response is not of class 0x61.  The    *)
(* payload returned is the concatenation of all response payloads in        *)
(* arrival order when the final status is 0x9000; it is empty when a "get   *)
(* more" frame was answered with a failure status, and it is the payloads   *)
(* before the failing response when an outbound frame was.                  *)
(***************************************************************************)
C2_Continuation ==
    Returned =>
        /\ GetMoreCount = MoreResponses
        /\ Hi(rx[Len(rx)].sw) # MoreCla
        /\ xres.sw = SwSuccess => xres.data = FlatData(rx)
        /\ (xres.sw # SwSuccess /\ GetMoreCount > 0) => xres.data = <<>>
        /\ (xres.sw # SwSuccess /\ GetMoreCount = 0) =>
              xres.data = FlatData(SubSeq(rx, 1, Len(rx) - 1))

\* two "get more" frames, three payloads of different lengths reassembled
C2_Witness ==
    /\ Returned
    /\ GetMoreCount = 2
    /\ xres.sw = SwSuccess
    /\ Len(rx[1].data) = 0 /\ Len(rx[2].data) = 1 /\ Len(rx[3].data) = 2
    /\ Len(xres.data) = 3

(***************************************************************************)
(* C3: size ceiling.  In neither phase does the accumulated output exceed   *)
(* max_out, and no response transfer_data returns carries more than max_out *)
(* payload bytes.                                                           *)
(***************************************************************************)
C3_SizeCeiling ==
    InTransfer =>
        /\ Len(out_data) <= max_out
        /\ xres.kind = "Ok" => Len(xres.data) <= max_out

(***************************************************************************)
(* C4: failure mid-chain.  Once an outbound frame is answered with a status *)
(* that is neither 0x9000 nor of class 0x61, that frame is the last one     *)
(* transmitted and transfer_data returns Ok with a response of that status. *)
(***************************************************************************)
C4_FailureMidChain ==
    InTransfer =>
        \A i \in 1..NOut :
            (rx[i] # TransportError /\ ~Continues(rx[i])) =>
                /\ i = Len(frames)
                /\ pc = "done"
                /\ xres = XOk(rx[i].sw, xres.data)
                /\ result.kind = "Ok"

\* the first of three chunks fails: the other two are never sent
C4_Witness ==
    /\ InTransfer
    /\ CeilFrames(Len(in_data)) = 3
    /\ Len(frames) = 1
    /\ rx[1].sw = SwIncorrect
    /\ pc = "done"
    /\ xres.kind = "Ok"

\* the input lengths authenticated_command is to accept
AuthExpected(alg, decipher, n) ==
    \/ alg = "Rsa1024" /\ n = 128
    \/ alg = "Rsa2048" /\ n = 256
    \/ alg = "EccP256" /\ ~decipher /\ n <= 32
    \/ alg = "EccP384" /\ ~decipher /\ n <= 48
    \/ alg = "EccP256" /\ decipher /\ n = 65
    \/ alg = "EccP384" /\ decipher /\ n = 97

InvalidInput ==
    \/ op = "verify_pin" /\ Len(call.pin) > 8
    \/ op = "change_ref" /\ (Len(call.pin) > 8 \/ Len(call.new_pin) > 8)
    \/ op = "authenticated_command"
         /\ ~AuthExpected(call.alg, call.decipher, Len(call.data))
    \/ op = "save_object" /\ Len(call.data) > CB_OBJ_MAX

(***************************************************************************)
(* C5: local validation precedes transmission.  A call of verify_pin,       *)
(* change_ref, authenticated_command or save_object with an input the       *)
(* handler rejects has returned SizeError and has transmitted no frame.     *)
(***************************************************************************)
C5_ValidationBeforeTransmission ==
    InvalidInput =>
        /\ frames = <<>>
        /\ pc = "done"
        /\ result = Err("SizeError")

\* change_ref with a new secret of nine bytes has returned
C5_Witness ==
    /\ op = "change_ref"
    /\ Len(call.pin) = 8
    /\ Len(call.new_pin) = 9
    /\ pc = "done"
    /\ result = Err("SizeError")
    /\ frames = <<>>

\* bytes base+1..base+8 of d are the secret and 0xFF behind it
PaddedAt(d, base, secret) ==
    \A i \in 1..8 :
        d[base + i] = IF i <= Len(secret) THEN secret[i] ELSE 255

(***************************************************************************)
(* C6: PIN/PUK payload shape.  verify_pin transmits exactly one frame: with *)
(* no payload for an empty PIN, with 8 payload bytes for a PIN of 1..8      *)
(* bytes, the PIN at the front and 0xFF behind it.  The command frame of    *)
(* change_ref carries 16 bytes: the current and the new secret, each at the *)
(* front of its own 8 bytes, with 0xFF behind it.                           *)
(***************************************************************************)
C6_PinPayloadShape ==
    /\ (op = "verify_pin" /\ pc = "done" /\ Len(call.pin) <= 8) =>
          /\ Len(frames) = 1
          /\ IF call.pin = <<>>
             THEN frames[1].data = <<>>
             ELSE Len(frames[1].data) = 8 /\ PaddedAt(frames[1].data, 0, call.pin)
    /\ (op = "change_ref" /\ pc = "done"
          /\ Len(call.pin) <= 8 /\ Len(call.new_pin) <= 8) =>
          /\ Len(frames) >= 1
          /\ Len(frames[1].data) = 16
          /\ PaddedAt(frames[1].data, 0, call.pin)
          /\ PaddedAt(frames[1].data, 8, call.new_pin)
          /\ \A i \in 2..Len(frames) : IsGetMore(frames[i]) /\ frames[i].data = <<>>

\* a retry-count query: verify_pin with the empty PIN has sent one empty frame
C6_Witness ==
    /\ op = "verify_pin"
    /\ call.pin = <<>>
    /\ pc = "done"
    /\ Len(frames) = 1
    /\ frames[1].data = <<>>

\* 0x63C0..0x63CF
VerifyFailed(s) == s >= 25536 /\ s <= 25551

Mapped(s, blocked) ==
    IF s = 36864 THEN Ok(<<>>)
    ELSE IF s = 27011 THEN blocked
    ELSE IF VerifyFailed(s) THEN ErrTries("WrongPin", s - 25536)
    ELSE Err("GenericError")

(***************************************************************************)
(* C7: PIN/PUK status mapping.  verify_pin returns Ok on 0x9000,            *)
(* WrongPin{0} on 0x6983, WrongPin{N} on 0x63CN and GenericError on any     *)
(* other status; change_ref returns Ok on 0x9000, PinLocked on 0x6983,      *)
(* WrongPin{N} on 0x63CN and GenericError on any other final status.  Each  *)
(* call has issued its command once.                                        *)
(***************************************************************************)
C7_PinStatusMapping ==
    /\ (op = "verify_pin" /\ pc = "done" /\ frames # <<>>) =>
          /\ Len(frames) = 1
          /\ rx[1] # TransportError =>
                result = Mapped(rx[1].sw, ErrTries("WrongPin", 0))
    /\ (op = "change_ref" /\ pc = "done" /\ frames # <<>>) =>
          /\ NOut = 1
          /\ xres.kind = "Ok" => result = Mapped(xres.sw, Err("PinLocked"))

\* a blocked PIN: verify_pin reports no tries left
C7_Witness ==
    /\ op = "verify_pin"
    /\ pc = "done"
    /\ Len(rx) = 1
    /\ rx[1].sw = SwAuthBlocked
    /\ result = ErrTries("WrongPin", 0)

AuthCalled == op = "authenticated_command"

\* the call got past the validation: it transmits, or has transmitted
AuthAccepted == pc \in {"xfer_out", "xfer_in"} \/ frames # <<>>

AuthRejected == pc = "done" /\ frames = <<>> /\ result = Err("SizeError")

(***************************************************************************)
(* C8: authenticated-command input validation.  An input of n bytes is      *)
(* accepted exactly when (RSA-1024, n = 128), (RSA-2048, n = 256), (ECC     *)
(* P-256/P-384 sign, n <= 32/48) or (ECC P-256/P-384 decipher, n = 65/97);  *)
(* every other input is rejected with SizeError.                            *)
(***************************************************************************)
C8_AuthInputValidation ==
    AuthCalled =>
        IF AuthExpected(call.alg, call.decipher, Len(call.data))
        THEN AuthAccepted
        ELSE AuthRejected

\* an uncompressed P-256 point is accepted for decipher
C8_Witness ==
    /\ AuthCalled
    /\ call.alg = "EccP256"
    /\ call.decipher
    /\ Len(call.data) = 65
    /\ Len(frames) = 1
    /\ Len(frames[1].data) = 71

LegacySequence ==
    << [cla |-> 0, ins |-> "SelectApplication", p1 |-> 4, p2 |-> 0,
        data |-> YK_AID],
       [cla |-> 0, ins |-> "0x01", p1 |-> 16, p2 |-> 0, data |-> <<>>],
       [cla |-> 0, ins |-> "SelectApplication", p1 |-> 4, p2 |-> 0,
        data |-> PIV_AID] >>

StepFailed(r) == r = TransportError \/ r.sw # 36864

Finished == pc \in {"done", "panic"}

(***************************************************************************)
(* C9: serial retrieval frame sequence.  For a major version below 5,       *)
(* get_serial issues select legacy applet, get serial, reselect PIV applet, *)
(* in this order: all three when every step succeeds, and a step that fails *)
(* is the last frame and ends the call with an error.  For a major version  *)
(* of 5 or more it issues the dedicated serial command and nothing else.    *)
(***************************************************************************)
C9_SerialFrameSequence ==
    /\ (op = "get_serial" /\ call.major < 5) =>
          /\ Len(frames) <= 3
          /\ frames = SubSeq(LegacySequence, 1, Len(frames))
          /\ \A i \in 1..Len(rx) :
                StepFailed(rx[i]) =>
                    Len(frames) = i /\ pc = "done" /\ result.kind = "Err"
          /\ (Finished /\ \A i \in 1..Len(rx) : ~StepFailed(rx[i])) =>
                Len(frames) = 3
    /\ (op = "get_serial" /\ call.major >= 5) =>
          /\ Len(frames) <= 1
          /\ Finished =>
                frames = <<[cla |-> 0, ins |-> "GetSerial", p1 |-> 0, p2 |-> 0,
                            data |-> <<>>]>>

\* a YubiKey 4: three frames, and the serial of the second response
C9_Witness ==
    /\ op = "get_serial"
    /\ call.major = 4
    /\ pc = "done"
    /\ Len(frames) = 3
    /\ result.kind = "Ok"
    /\ result.value = <<FromBeBytes(rx[2].data)>>

(***************************************************************************)
(* C10: object round trip.  With the storing card, fetch_object returns the *)
(* content of the last save_object unchanged, for every content of at most  *)
(* CB_OBJ_MAX bytes, and such a save succeeds; save_object of a longer      *)
(* content fails with SizeError and transmits nothing.                      *)
(***************************************************************************)
C10_ObjectRoundTrip ==
    /\ (op = "fetch_object" /\ pc = "done" /\ saved.set) =>
          result = Ok(saved.data)
    /\ (op = "save_object" /\ pc = "done" /\ Len(call.data) <= CB_OBJ_MAX) =>
          result = Ok(<<>>) /\ saved = [set |-> TRUE, data |-> call.data]
    /\ (op = "save_object" /\ Len(call.data) > CB_OBJ_MAX) =>
          frames = <<>> /\ pc = "done" /\ result = Err("SizeError")
    /\ pc # "panic"

\* the largest object, saved in 13 frames, comes back through 11 "get more"
\* frames
C10_Witness ==
    /\ op = "fetch_object"
    /\ pc = "done"
    /\ saved.set
    /\ Len(saved.data) = CB_OBJ_MAX
    /\ GetMoreCount = 11
    /\ result = Ok(ObjBytes(CB_OBJ_MAX))

SecretHandlers ==
    {"verify_pin", "change_ref", "set_mgm_key", "authenticated_command"}

AllZero(bytes) == \A i \in 1..Len(bytes) : bytes[i] = 0

\* the call was given a secret of at least one byte
SecretGiven == call.pin # <<>> \/ call.new_pin # <<>> \/ call.data # <<>>

(***************************************************************************)
(* C11: secret zeroing.  In verify_pin, change_ref, set_mgm_key and         *)
(* authenticated_command, the memory of every local buffer the handler      *)
(* copied secret bytes into holds only zeros once the buffer is released,   *)
(* on every exit path.                                                      *)
(***************************************************************************)
C11_SecretZeroing ==
    (op \in SecretHandlers /\ SecretGiven) =>
        \A i \in 1..Len(released) : AllZero(released[i])

\* a handler call is under way or has just returned
InCall == pc # "idle"

(***************************************************************************)
(* C12: session exclusivity.  At any time at most one Transaction exists    *)
(* for the card, it is the one the card has granted its transaction to, and *)
(* the card's transaction is held by nobody once that Transaction is out of *)
(* scope; every frame of a call is sent by the session that holds the card, *)
(* so no other session's frame comes between the frames of a chained        *)
(* command or between a 0x61 response and its "get more" frame.             *)
(***************************************************************************)
C12_SessionExclusivity ==
    /\ Cardinality(live) <= 1
    /\ IF holder = 0 THEN live = {} ELSE live = {holder}
    /\ InCall => (owner # 0 /\ owner = holder)

\* the second session holds the card alone, between a 0x61 response and its
\* "get more" frame
C12_Witness ==
    /\ live = {2}
    /\ holder = 2
    /\ owner = 2
    /\ pc = "xfer_in"
    /\ Len(frames) >= 2
    /\ Hi(rx[Len(rx)].sw) = MoreCla

(***************************************************************************)
(* C13: final status of transfer_data.  Whenever transfer_data returns a    *)
(* response, its status is the status of the response to the last frame     *)
(* transmitted, and that status is not of class 0x61.                       *)
(***************************************************************************)
C13_FinalStatus ==
    (pc = "done" /\ xres.kind = "Ok") =>
        /\ Len(rx) = Len(frames)
        /\ xres.sw = rx[Len(rx)].sw
        /\ Hi(xres.sw) # MoreCla

\* two responses of class 0x61 were consumed, the status of the second "get
\* more" frame is returned
C13_Witness ==
    /\ op = "transfer_data"
    /\ pc = "done"
    /\ xres.kind = "Ok"
    /\ Len(rx) = 3
    /\ Hi(rx[1].sw) = MoreCla
    /\ Hi(rx[2].sw) = MoreCla
    /\ rx[3].sw = SwSecurity
    /\ xres.sw = SwSecurity

\* what is to come of each response the signing card sends with 0x9000
AuthReplyTable ==
    { [bytes |-> ReplyRsa2048, result |-> Ok(Signature(256))],
      [bytes |-> ReplyRsa1024, result |-> Ok(Signature(128))],
      [bytes |-> <<124, 4, 130, 2, 9, 8>>, result |-> Ok(<<9, 8>>)],
      [bytes |-> <<124, 2, 130, 0>>, result |-> Ok(<<>>)],
      [bytes |-> <<124, 5, 130, 2, 9, 8, 7>>, result |-> Ok(<<9, 8>>)],
      [bytes |-> <<124, 4, 130, 2, 9, 8, 7>>, result |-> Ok(<<9, 8>>)],
      [bytes |-> <<125, 4, 130, 2, 9, 8>>, result |-> Err("ParseError")],
      [bytes |-> <<124, 4, 129, 2, 9, 8>>, result |-> Err("ParseError")],
      [bytes |-> <<124, 5, 130, 2, 9, 8>>, result |-> Err("ParseError")],
      [bytes |-> <<124, 4, 130, 3, 9, 8>>, result |-> Err("ParseError")],
      [bytes |-> <<124, 129>>, result |-> Err("ParseError")],
      [bytes |-> <<124, 0>>, result |-> Err("ParseError")],
      [bytes |-> <<124>>, result |-> Err("ParseError")],
      [bytes |-> <<>>, result |-> Err("ParseError")] }

\* authenticated_command has returned after transfer_data returned a response
AuthAnswered ==
    op = "authenticated_command" /\ pc = "done" /\ xres.kind = "Ok"

(***************************************************************************)
(* C14: authenticated-command result interpretation.  After a valid         *)
(* request, a final status of 0x6982 gives AuthenticationError and any      *)
(* other status but 0x9000 gives GenericError.  On 0x9000 the response is   *)
(* parsed as a node of tag 0x7c that holds a node of tag 0x82: a wrong tag  *)
(* or a malformed structure gives ParseError, and otherwise exactly the     *)
(* inner value is returned.                                                 *)
(***************************************************************************)
C14_AuthResultInterpretation ==
    AuthAnswered =>
        IF xres.sw = 27010 THEN result = Err("AuthenticationError")
        ELSE IF xres.sw # 36864 THEN result = Err("GenericError")
        ELSE /\ \E e \in AuthReplyTable : xres.data = e.bytes
             /\ \A e \in AuthReplyTable :
                   xres.data = e.bytes => result = e.result

\* an RSA-2048 signature, reassembled from two responses, is returned
C14_Witness ==
    /\ AuthAnswered
    /\ call.alg = "Rsa2048"
    /\ GetMoreCount = 1
    /\ xres.sw = 36864
    /\ result = Ok(Signature(256))

\* what the object card sends with 0x9000: the responses that are one node
\* with its value, those with bytes behind the node, those cut short
ObjectReplyTable ==
    { [bytes |-> <<83, 0>>, is |-> "node", value |-> <<>>],
      [bytes |-> <<83, 1, 18>>, is |-> "node", value |-> <<18>>],
      [bytes |-> <<84, 1, 18>>, is |-> "node", value |-> <<18>>],
      [bytes |-> <<83, 127>> \o Stored(127), is |-> "node",
       value |-> Stored(127)],
      [bytes |-> <<83, 129, 128>> \o Stored(128), is |-> "node",
       value |-> Stored(128)],
      [bytes |-> <<83, 129, 255>> \o Stored(255), is |-> "node",
       value |-> Stored(255)],
      [bytes |-> <<83, 130, 1, 0>> \o Stored(256), is |-> "node",
       value |-> Stored(256)],
      [bytes |-> <<83, 130, 2, 88>> \o Stored(600), is |-> "node",
       value |-> Stored(600)],
      [bytes |-> <<83, 130, 11, 247>> \o Stored(3063), is |-> "node",
       value |-> Stored(3063)],
      [bytes |-> <<83, 0, 0>>, is |-> "trailing", value |-> <<>>],
      [bytes |-> <<83, 1, 18, 25>>, is |-> "trailing", value |-> <<>>],
      [bytes |-> <<83, 129, 128>> \o Stored(130), is |-> "trailing",
       value |-> <<>>],
      [bytes |-> <<83, 130, 1, 0>> \o Stored(257), is |-> "trailing",
       value |-> <<>>],
      [bytes |-> <<83, 130, 2, 88>> \o Stored(601), is |-> "trailing",
       value |-> <<>>],
      [bytes |-> <<83, 2, 18>>, is |-> "short", value |-> <<>>],
      [bytes |-> <<83, 129, 128>> \o Stored(127), is |-> "short",
       value |-> <<>>],
      [bytes |-> <<83, 130, 1, 0>> \o Stored(255), is |-> "short",
       value |-> <<>>],
      [bytes |-> <<83, 130, 1>>, is |-> "short", value |-> <<>>],
      [bytes |-> <<83, 129>>, is |-> "short", value |-> <<>>],
      [bytes |-> <<83>>, is |-> "short", value |-> <<>>],
      [bytes |-> <<>>, is |-> "short", value |-> <<>>] }

\* fetch_object has returned after transfer_data returned a response
FetchAnswered == op = "fetch_object" /\ pc = "done" /\ xres.kind = "Ok"

(***************************************************************************)
(* C15: fetch-object result interpretation.  fetch_object returns NotFound  *)
(* on a final status of 0x6A88 and GenericError on any other status but     *)
(* 0x9000.  On 0x9000 the whole reassembled response is parsed as one node: *)
(* its value is returned only when nothing follows the node, and SizeError  *)
(* whenever bytes follow it; a response cut short gives no value.           *)
(***************************************************************************)
C15_FetchResultInterpretation ==
    FetchAnswered =>
        IF xres.sw = 27272 THEN result = Err("NotFound")
        ELSE IF xres.sw # 36864 THEN result = Err("GenericError")
        ELSE \E e \in ObjectReplyTable :
               /\ xres.data = e.bytes
               /\ e.is = "node" => result = Ok(e.value)
               /\ e.is = "trailing" => result = Err("SizeError")
               /\ e.is = "short" => result.kind = "Err"

\* an object of 601 bytes that declares 600, reassembled from three
\* responses, is refused
C15_Witness ==
    /\ FetchAnswered
    /\ GetMoreCount = 2
    /\ xres.sw = 36864
    /\ Len(xres.data) = 605
    /\ result = Err("SizeError")

\* the handler runs transfer_data
UsesTransfer ==
    op \in {"transfer_data", "change_ref", "authenticated_command",
            "fetch_object", "save_object"}

\* out_data.len() when the response to outbound frame i arrives: the payloads
\* of the responses before it
AccumulatedBefore(i) == Len(FlatData(SubSeq(rx, 1, i - 1)))

(***************************************************************************)
(* C16: no unsigned underflow in the outbound size check.  Whenever the     *)
(* outbound loop evaluates out_data.len() - response.data().len(), that is  *)
(* for every outbound response of status 0x9000 or class 0x61 that arrives  *)
(* when out_data is not empty, out_data is at least as long as the          *)
(* response's payload.                                                      *)
(***************************************************************************)
C16_NoUnderflow ==
    UsesTransfer =>
        \A i \in 1..NOut :
            (Continues(rx[i]) /\ AccumulatedBefore(i) # 0) =>
                AccumulatedBefore(i) >= Len(rx[i].data)

\* get_serial, on the legacy path, has selected the yk applet
LegacySelected ==
    /\ op = "get_serial"
    /\ call.major < 5
    /\ Len(rx) >= 1
    /\ rx[1].sw = 36864

LenForm(n) ==
    IF n < 128 THEN <<n>>
    ELSE IF n < 256 THEN <<129, n>>
    ELSE <<130, n \div 256, n % 256>>

\* the request of a call: the node 0x7c of the declared length n + bytes + 3,
\* and in it the empty node 0x82 and the node of the input
WrappedRequest(sign_in, tag) ==
    LET n == Len(sign_in)
        bytes == IF n < 128 THEN 1 ELSE IF n < 255 THEN 2 ELSE 3
    IN  <<124>> \o LenForm(n + bytes + 3) \o <<130, 0>> \o <<tag>>
        \o LenForm(n) \o sign_in

(***************************************************************************)
(* C18: wrapper arithmetic in authenticated_command.  For every input that  *)
(* passes validation, the length-prefix byte count computed locally equals  *)
(* the number of length bytes of the three-form rule, neither internal      *)
(* assertion fails, the outer node declares exactly the bytes written into  *)
(* it, so that the request is the outer node of the empty node 0x82 and the *)
(* node of the input with nothing behind, and the request fits 1024 bytes.  *)
(***************************************************************************)
C18_WrapperArithmetic ==
    ( /\ AuthCalled
      /\ AuthExpected(call.alg, call.decipher, Len(call.data)) ) =>
        /\ AuthBytes(Len(call.data)) = Len(LenForm(Len(call.data)))
        /\ ~(pc = "panic" /\ frames = <<>>)
        /\ in_data =
              WrappedRequest(call.data,
                             IF call.decipher /\ call.alg \in {"EccP256", "EccP384"}
                             THEN 133 ELSE 129)
        /\ Len(in_data) <= 1024

\* the longest input: 256 bytes under three length bytes, in a request of
\* 266 bytes sent in two frames
C18_Witness ==
    /\ AuthCalled
    /\ Len(call.data) = 256
    /\ Len(in_data) = 266
    /\ Len(frames) >= 2
    /\ frames[1].cla = 16
    /\ pc = "done"

\* the response get_serial takes the serial from, when every step succeeded
SerialResponse ==
    IF call.major < 5 THEN rx[2] ELSE rx[1]

\* every frame of the call was answered with 0x9000
AllSucceeded ==
    \A i \in 1..Len(rx) : rx[i].sw = 36864

(***************************************************************************)
(* C19: short responses are reported as size errors.  When the card answers *)
(* with 0x9000 but too few payload bytes, get_version (fewer than 3 bytes)  *)
(* and get_serial (fewer than 4 bytes, on either path) return SizeError,    *)
(* and neither handler panics.                                              *)
(***************************************************************************)
C19_ShortResponses ==
    /\ (op = "get_version" /\ Finished /\ AllSucceeded
          /\ Len(rx[1].data) < 3) => result = Err("SizeError")
    /\ (op = "get_serial" /\ Finished /\ AllSucceeded
          /\ Len(SerialResponse.data) < 4) => result = Err("SizeError")
    /\ op \in {"get_version", "get_serial"} => pc # "panic"

\* transfer_data is in one of its loops
Transferring == pc \in {"xfer_out", "xfer_in"}

\* every status of class 0x61 that answered a "get more" frame came with at
\* least one payload byte
DrainsByBytes ==
    \A i \in (NOut + 1)..Len(rx) :
        Hi(rx[i].sw) = 97 => Len(rx[i].data) >= 1

\* the frame counts of the call are within their limits
FramesBounded ==
    UsesTransfer =>
        /\ NOut <= CeilFrames(Len(in_data))
        /\ DrainsByBytes => GetMoreCount <= max_out + 1

(***************************************************************************)
(* C20: termination of transfer_data.  Whatever the card answers, the       *)
(* outbound phase sends at most max(1, ceil(L/255)) frames; provided every  *)
(* 0x61 response to a "get more" frame carries at least one payload byte,   *)
(* the inbound phase sends at most max_out + 1 "get more" frames; and the   *)
(* call returns, with a response or an error.                               *)
(***************************************************************************)
C20_Termination ==
    /\ []FramesBounded
    /\ Transferring ~> (pc = "done")

\* C20 with the abort on the overflow of the outbound size check counted as
\* an end of the call: the frame counts are within their limits and every
\* call ends
C20_TerminationUnlessPanic ==
    /\ []FramesBounded
    /\ Transferring ~> Finished

\* the ceiling of 2 bytes is reached one byte at a time: the third "get
\* more" frame ends the call with SizeError
C20_BoundReached ==
    /\ op = "transfer_data"
    /\ pc = "done"
    /\ max_out = 2
    /\ GetMoreCount = 3
    /\ xres = XErr("SizeError")

====
